---- MODULE Spec2Model ----
(***************************************************************************)
(* Model of the screenshot renamer: candidate selection, per-item          *)
(* pipeline (OCR, caption, name synthesis, rename, metadata write,         *)
(* reclamation) and the filename sanitizer.                                *)
(* File names and generator responses are sequences of one-character       *)
(* strings, so that lower(), startswith(), splitext(), replace(), the      *)
(* charset filter, the slice and the date regex are computed as the code   *)
(* computes them.                                                          *)
(***************************************************************************)
EXTENDS Integers, Sequences, FiniteSets, TLC

\* ------------------------------------------------------------------------
\* Characters
\* ------------------------------------------------------------------------

\* The characters used, in ascending code point order (str comparison).
AsciiOrder ==
    << "\n", " ", "!", "-", ".",
       "0", "1", "2", "3", "4", "5", "6", "7", "8", "9",
       "A", "B", "C", "D", "E", "F", "G", "H", "I", "J", "K", "L", "M",
       "N", "O", "P", "Q", "R", "S", "T", "U", "V", "W", "X", "Y", "Z",
       "_",
       "a", "b", "c", "d", "e", "f", "g", "h", "i", "j", "k", "l", "m",
       "n", "o", "p", "q", "r", "s", "t", "u", "v", "w", "x", "y", "z" >>

\* the rank of each character in that order
CodeTable ==
    [c \in {AsciiOrder[i] : i \in 1..Len(AsciiOrder)} |->
        CHOOSE i \in 1..Len(AsciiOrder) : AsciiOrder[i] = c]

Code(c) == CodeTable[c]

IsDigit(c) == Code(c) \in 6..15
IsUpper(c) == Code(c) \in 16..41
IsLowerLetter(c) == Code(c) \in 43..68
\* str.isalnum() on one character
IsAlnum(c) == IsDigit(c) \/ IsUpper(c) \/ IsLowerLetter(c)
\* the characters str.strip() removes
IsSpace(c) == c \in {"\n", " "}

LowerChar(c) == IF IsUpper(c) THEN AsciiOrder[Code(c) + 27] ELSE c
\* str.lower()
Lower(s) == [i \in 1..Len(s) |-> LowerChar(s[i])]

\* str.startswith(p)
StartsWith(s, p) == Len(s) >= Len(p) /\ SubSeq(s, 1, Len(p)) = p

\* s[a:] for a 1-based start
From(s, a) == SubSeq(s, a, Len(s))

\* ------------------------------------------------------------------------
\* tools/intelligent_filename.py : generate_intelligent_filename
\* ------------------------------------------------------------------------

\* the hard cap of the slice filename[:64]
MaxStemLen == 64

\* the extension appended to every synthesized stem
PngExt == <<".", "p", "n", "g">>

RECURSIVE LStrip(_)
LStrip(s) == IF s # <<>> /\ IsSpace(Head(s)) THEN LStrip(Tail(s)) ELSE s

RECURSIVE RStrip(_)
RStrip(s) ==
    IF s # <<>> /\ IsSpace(s[Len(s)]) THEN RStrip(SubSeq(s, 1, Len(s) - 1)) ELSE s

\* str.strip()
Strip(s) == RStrip(LStrip(s))

\* response.split("\n")[0]
RECURSIVE FirstLine(_)
FirstLine(s) ==
    IF s = <<>> \/ Head(s) = "\n" THEN <<>> ELSE <<Head(s)>> \o FirstLine(Tail(s))

\* str.replace(" ", "_")
ReplaceSpaces(s) == [i \in 1..Len(s) |-> IF s[i] = " " THEN "_" ELSE s[i]]

\* str.replace("__", "_"): one left-to-right pass over non-overlapping matches
RECURSIVE ReplaceDouble(_)
ReplaceDouble(s) ==
    IF Len(s) < 2 THEN s
    ELSE IF s[1] = "_" /\ s[2] = "_"
         THEN <<"_">> \o ReplaceDouble(From(s, 3))
         ELSE <<s[1]>> \o ReplaceDouble(Tail(s))

\* c.isalnum() or c in "._-"
SafeChar(c) == IsAlnum(c) \/ c \in {".", "_", "-"}

\* "".join(c for c in filename if c.isalnum() or c in "._-")
RECURSIVE KeepSafe(_)
KeepSafe(s) ==
    IF s = <<>> THEN <<>>
    ELSE IF SafeChar(Head(s)) THEN <<Head(s)>> \o KeepSafe(Tail(s))
         ELSE KeepSafe(Tail(s))

TruncateOffByOne(s) ==
    IF Len(s) > MaxStemLen + 1 THEN SubSeq(s, 1, MaxStemLen + 1) ELSE s

\* filename[:64]
Truncate(s) == IF Len(s) > MaxStemLen THEN SubSeq(s, 1, MaxStemLen) ELSE s

\* the sanitized stem computed from the generator's raw response
SanitizedStem(response) ==
    Truncate(KeepSafe(ReplaceDouble(ReplaceSpaces(Lower(FirstLine(Strip(response)))))))

\* the value generate_intelligent_filename returns for a generator response
generate_intelligent_filename(response) == SanitizedStem(response) \o PngExt

\* ------------------------------------------------------------------------
\* screenshot-renamer.py : process_directory, main (ordering)
\* ------------------------------------------------------------------------

\* the literal prefix of lower_filename.startswith("screen")
ScreenPrefix == <<"s", "c", "r", "e", "e", "n">>

\* index of the last "." of s, 0 when there is none (str.rfind)
LastDot(s) ==
    LET dots == {i \in 1..Len(s) : s[i] = "."}
    IN  IF dots = {} THEN 0 ELSE CHOOSE i \in dots : \A j \in dots : j <= i

FirstDot(s) ==
    LET dots == {i \in 1..Len(s) : s[i] = "."}
    IN  IF dots = {} THEN 0 ELSE CHOOSE i \in dots : \A j \in dots : i <= j

\* the dot os.path.splitext splits a basename at
SplitDot(s) == LastDot(s)

\* os.path.splitext(s)[-1] for a basename: the part from the last dot on,
\* empty when there is no dot or only dots come before it
SplitExt(s) ==
    LET d == SplitDot(s)
    IN  IF d > 0 /\ \E j \in 1..(d - 1) : s[j] # "." THEN From(s, d) ELSE <<>>

\* the test of the loop body of process_directory on one directory entry
Eligible(filename) ==
    LET lower_filename == Lower(filename)
    IN  /\ StartsWith(lower_filename, ScreenPrefix)
        /\ SplitExt(lower_filename) = PngExt

\* process_directory on a directory listing (a sequence of entry names):
\* the list image_files it builds
RECURSIVE process_directory(_)
process_directory(listing) ==
    IF listing = <<>> THEN <<>>
    ELSE IF Eligible(Head(listing))
         THEN <<Lower(Head(listing))>> \o process_directory(Tail(listing))
         ELSE process_directory(Tail(listing))

\* a < b for str (lexicographic by code point)
RECURSIVE StrLess(_, _)
StrLess(a, b) ==
    IF b = <<>> THEN FALSE
    ELSE IF a = <<>> THEN TRUE
    ELSE IF Code(Head(a)) < Code(Head(b)) THEN TRUE
    ELSE IF Code(Head(a)) > Code(Head(b)) THEN FALSE
    ELSE StrLess(Tail(a), Tail(b))

\* insert x into the sorted list s after every element not greater than it
RECURSIVE InsertStr(_, _)
InsertStr(x, s) ==
    IF s = <<>> THEN <<x>>
    ELSE IF StrLess(x, Head(s)) THEN <<x>> \o s
    ELSE <<Head(s)>> \o InsertStr(x, Tail(s))

\* list.sort()
RECURSIVE SortStr(_)
SortStr(s) ==
    IF s = <<>> THEN <<>>
    ELSE InsertStr(s[Len(s)], SortStr(SubSeq(s, 1, Len(s) - 1)))

RECURSIVE InsertLen(_, _)
InsertLen(x, s) ==
    IF s = <<>> THEN <<x>>
    ELSE IF Len(x) < Len(Head(s)) THEN <<x>> \o s
    ELSE <<Head(s)>> \o InsertLen(x, Tail(s))

SortLenSkipped(s) == s

\* list.sort(key=len): stable, ascending by length
RECURSIVE SortLen(_)
SortLen(s) ==
    IF s = <<>> THEN <<>>
    ELSE InsertLen(s[Len(s)], SortLen(SubSeq(s, 1, Len(s) - 1)))

\* the orders of s: every arrangement random.shuffle can leave, and every
\* order os.listdir can enumerate a set of entries in
Arrangements(s) ==
    LET n == Len(s)
    IN  { [i \in 1..n |-> s[p[i]]] :
            p \in {q \in [1..n -> 1..n] : \A i, j \in 1..n : q[i] = q[j] => i = j} }

\* a sequence holding the elements of the finite set S once each
RECURSIVE SeqOfSet(_)
SeqOfSet(S) ==
    IF S = {} THEN <<>>
    ELSE LET x == CHOOSE y \in S : TRUE IN <<x>> \o SeqOfSet(S \ {x})

\* the orders image_files can have when the batch loop starts (main, after
\* the two sorts or the shuffle)
OrderedBatch(found, dry) ==
    IF dry THEN Arrangements(SortStr(found)) ELSE {SortLen(SortStr(found))}

\* ------------------------------------------------------------------------
\* screenshot-renamer.py : process_image (name construction)
\* ------------------------------------------------------------------------

\* re.search(r"(\d{4}-\d{2}-\d{2})", filename) matches at position i
DateAt(s, i) ==
    /\ i + 9 <= Len(s)
    /\ \A k \in {0, 1, 2, 3, 5, 6, 8, 9} : IsDigit(s[i + k])
    /\ s[i + 4] = "-"
    /\ s[i + 7] = "-"

UnknownDate == <<"u", "n", "k", "n", "o", "w", "n", "-", "d", "a", "t", "e">>

\* date_part: the first match of the date pattern, or "unknown-date"
DatePart(filename) ==
    LET hits == {i \in 1..Len(filename) : DateAt(filename, i)}
    IN  IF hits = {} THEN UnknownDate
        ELSE LET i == CHOOSE h \in hits : \A g \in hits : h <= g
             IN  SubSeq(filename, i, i + 9)

ScreenshotPrefix ==
    <<"s", "c", "r", "e", "e", "n", "s", "h", "o", "t", "_">>

\* f"screenshot_{date_part}-{new_filename}"
FinalName(filename, response) ==
    ScreenshotPrefix \o DatePart(filename) \o <<"-">>
        \o generate_intelligent_filename(response)

\* ------------------------------------------------------------------------
\* The directory and the collaborators
\* ------------------------------------------------------------------------

\* the most entries a modelled directory holds
MaxFiles == 3

\* the longest word the sanitizer inputs are built from
MaxWordLen == 3

E_screen_a == <<"s", "c", "r", "e", "e", "n", "_", "a", ".", "p", "n", "g">>
E_Screen_a == <<"S", "c", "r", "e", "e", "n", "_", "a", ".", "p", "n", "g">>
E_SCREEN_B == <<"S", "C", "R", "E", "E", "N", "_", "B", ".", "P", "N", "G">>
E_notes == <<"n", "o", "t", "e", "s", ".", "t", "x", "t">>
E_dated ==
    <<"s", "c", "r", "e", "e", "n", "2", "0", "2", "4", "-", "0", "3", "-",
      "0", "1", ".", "p", "n", "g">>
E_dated_b ==
    <<"s", "c", "r", "e", "e", "n", "_", "2", "0", "2", "4", "-", "0", "3",
      "-", "0", "1", "b", ".", "p", "n", "g">>
E_two_dots == <<"s", "c", "r", "e", "e", "n", ".", "v", "2", ".", "p", "n", "g">>
E_myscreen == <<"m", "y", "s", "c", "r", "e", "e", "n", ".", "p", "n", "g">>
E_png_txt ==
    <<"s", "c", "r", "e", "e", "n", ".", "p", "n", "g", ".", "t", "x", "t">>

\* the names a modelled directory is filled from
EntryPool ==
    { E_screen_a, E_Screen_a, E_SCREEN_B, E_notes, E_dated, E_dated_b,
      E_two_dots, E_myscreen, E_png_txt }

\* what the OCR engine can return ("" is "no text detected")
OcrTexts == {"", "Sign in"}

\* what the caption model can return ("" makes generate_caption raise)
Captions == {"", "a login form"}

R_login == <<"L", "o", "g", "i", "n">>
R_my_app == <<"M", "y", " ", " ", "A", "p", "p", "!", "\n", "o", "k">>

\* what the free-text generator can return in a batch run
Responses == {R_login, R_my_app}

\* the value of a metadata field nothing has written
NoMeta == "<unset>"

\* the result of looking up a name no entry answers to
None == <<>>

\* the entry of directory d that the path `name` opens: the entry spelled
\* the same, or on a case-insensitive volume the entry equal up to case
Resolve(d, name, insensitive) ==
    LET hits == {e \in DOMAIN d :
                    IF insensitive THEN Lower(e) = Lower(name) ELSE e = name}
    IN  IF hits = {} THEN None ELSE CHOOSE e \in hits : TRUE

\* the directory after os.rename(src, dst) succeeded: the entry src opens
\* is now named dst, and the entry dst opened before is gone
Renamed(d, src, dst, insensitive) ==
    LET s == Resolve(d, src, insensitive)
        t == Resolve(d, dst, insensitive)
    IN  [n \in ((DOMAIN d) \ {s, t}) \cup {dst} |->
            IF n = dst THEN d[s] ELSE d[n]]

\* the directory after exiftool wrote the two fields to the file `path` opens
Annotated(d, path, caption, text, insensitive) ==
    LET t == Resolve(d, path, insensitive)
    IN  [d EXCEPT ![t] = [id |-> d[t].id, desc |-> caption, comment |-> text]]

ApplyBranchAlwaysRename(dry) == "rename"

\* the branch of `if dry_run:` process_image takes
ApplyBranch(dry) == IF dry THEN "report" ELSE "rename"

MetadataTargetOld(image_path, new_path) == image_path

\* the path process_image hands to write_exif_metadata
MetadataTarget(image_path, new_path) == new_path

ReclaimsRealRunOnly(dry) == ~dry

\* whether process_image reaches clear_gpu_memory() after the apply step:
\* the call follows the if/else, so in both modes
Reclaims(dry) == TRUE

\* ------------------------------------------------------------------------
\* State
\* ------------------------------------------------------------------------

VARIABLES
    dry_run,          \* args.dry_run
    case_insensitive, \* whether the volume folds case when it opens a path
    mps_available,    \* torch.backends.mps.is_available()
    fs,               \* the directory: entry name -> [id, desc, comment]
    fs0,              \* the directory as it was before the run
    image_files,      \* main's list image_files
    idx,              \* the loop counter i of the batch loop
    pc,               \* where main / process_image stands
    ocr_text,         \* process_image's local ocr_text
    ai_caption,       \* process_image's local ai_caption
    new_filename,     \* process_image's local new_filename
    error,            \* the exception that left main, "none" if none did
    events,           \* the calls made so far, in order
    san_in,           \* the response handed to the sanitizer
    san_out           \* the file name the sanitizer returned for it

vars ==
    << dry_run, case_insensitive, mps_available, fs, fs0, image_files, idx,
       pc, ocr_text, ai_caption, new_filename, error, events, san_in, san_out >>

env == << dry_run, case_insensitive, mps_available, fs0 >>
locals == << ocr_text, ai_caption, new_filename >>
san == << san_in, san_out >>

\* a directory holding the entries D, no metadata written yet
FreshDir(D) == [n \in D |-> [id |-> n, desc |-> NoMeta, comment |-> NoMeta]]

\* no two entries of a case-insensitive volume differ only by case
Storable(D, insensitive) ==
    insensitive => \A a, b \in D : Lower(a) = Lower(b) => a = b

Event(op, src, dst, ok) ==
    [op |-> op, item |-> idx, src |-> src, dst |-> dst, ok |-> ok]

\* process_image's local filename (the basename of image_path)
filename == image_files[idx]

\* an exception leaves process_image and, uncaught, main
Raise(e) == pc' = "aborted" /\ error' = e

Init ==
    /\ dry_run \in BOOLEAN
    /\ case_insensitive \in BOOLEAN
    /\ mps_available \in BOOLEAN
    /\ \E D \in SUBSET EntryPool :
          /\ Cardinality(D) <= MaxFiles
          /\ Storable(D, case_insensitive)
          /\ fs = FreshDir(D)
          /\ fs0 = FreshDir(D)
    /\ image_files = <<>>
    /\ idx = 0
    /\ pc = "start"
    /\ ocr_text = ""
    /\ ai_caption = ""
    /\ new_filename = <<>>
    /\ error = "none"
    /\ events = <<>>
    /\ san_in = <<>>
    /\ san_out = <<>>

\* main, lines 166-177: process_directory, the ordering policy, the preview
MainSelect ==
    /\ pc = "start"
    /\ \E listing \in Arrangements(SeqOfSet(DOMAIN fs)) :
          LET found == process_directory(listing)
          IN  IF found = <<>>
              THEN Raise("NoCandidatesFound") /\ UNCHANGED image_files
              ELSE /\ image_files' \in OrderedBatch(found, dry_run)
                   /\ pc' = "setup"
                   /\ UNCHANGED error
    /\ UNCHANGED << env, fs, idx, locals, events, san >>

\* main, line 179: setup_ai_components (get_mps_device raises without MPS)
SetupAI ==
    /\ pc = "setup"
    /\ IF mps_available
       THEN pc' = "loop" /\ idx' = 1 /\ UNCHANGED error
       ELSE Raise("SetupFailed") /\ UNCHANGED idx
    /\ UNCHANGED << env, fs, image_files, locals, events, san >>

\* the batch loop takes its next item and enters process_image
BeginItem ==
    /\ pc = "loop"
    /\ idx <= Len(image_files)
    /\ pc' = "ocr"
    /\ UNCHANGED << env, fs, image_files, idx, locals, error, events, san >>

\* the batch loop is exhausted: main returns
Finish ==
    /\ pc = "loop"
    /\ idx > Len(image_files)
    /\ pc' = "done"
    /\ UNCHANGED << env, fs, image_files, idx, locals, error, events, san >>

\* process_image, line 74: extract_text_from_image(image_path)
ExtractText ==
    /\ pc = "ocr"
    /\ \E text \in OcrTexts, ok \in BOOLEAN :
          /\ events' = Append(events, Event("extract", filename, None, ok))
          /\ IF ok /\ Resolve(fs, filename, case_insensitive) # None
             THEN ocr_text' = text /\ pc' = "caption" /\ UNCHANGED error
             ELSE Raise("CollaboratorError") /\ UNCHANGED ocr_text
    /\ UNCHANGED << env, fs, image_files, idx, ai_caption, new_filename, san >>

\* process_image, line 80: generate_caption(image_path, ai_components)
GenerateCaption ==
    /\ pc = "caption"
    /\ \E caption \in Captions :
          IF Resolve(fs, filename, case_insensitive) = None
          THEN Raise("CollaboratorError") /\ UNCHANGED ai_caption
          ELSE IF caption = ""
          THEN Raise("EmptyDescription") /\ UNCHANGED ai_caption
          ELSE ai_caption' = caption /\ pc' = "synth" /\ UNCHANGED error
    /\ UNCHANGED << env, fs, image_files, idx, ocr_text, new_filename, events,
                    san >>

\* process_image, lines 86-96: the generator call, the sanitizer, the date
SynthesizeName ==
    /\ pc = "synth"
    /\ \/ \E response \in Responses :
             /\ new_filename' = FinalName(filename, response)
             /\ pc' = "apply"
             /\ UNCHANGED error
       \/ Raise("CollaboratorError") /\ UNCHANGED new_filename
    /\ UNCHANGED << env, fs, image_files, idx, ocr_text, ai_caption, events,
                    san >>

\* process_image, line 101: the dry-run report
DryRunReport ==
    /\ pc = "apply"
    /\ ApplyBranch(dry_run) = "report"
    /\ events' = Append(events, Event("report", filename, new_filename, TRUE))
    /\ pc' = "reclaim"
    /\ UNCHANGED << env, fs, image_files, idx, locals, error, san >>

\* process_image, line 104: os.rename(image_path, new_path)
RenameFile ==
    /\ pc = "apply"
    /\ ApplyBranch(dry_run) = "rename"
    /\ \E ok \in BOOLEAN :
          LET done == ok /\ Resolve(fs, filename, case_insensitive) # None
          IN  /\ events' =
                    Append(events, Event("rename", filename, new_filename, done))
              /\ IF done
                 THEN /\ fs' = Renamed(fs, filename, new_filename,
                                       case_insensitive)
                      /\ pc' = "meta"
                      /\ UNCHANGED error
                 ELSE Raise("RenameFailed") /\ UNCHANGED fs
    /\ UNCHANGED << env, image_files, idx, locals, san >>

\* process_image, line 105: write_exif_metadata(new_path, ocr_text, ai_caption)
WriteMetadata ==
    /\ pc = "meta"
    /\ \E ok \in BOOLEAN :
          LET target == MetadataTarget(filename, new_filename)
              done == ok /\ Resolve(fs, target, case_insensitive) # None
          IN  /\ events' =
                    Append(events, Event("write_metadata", filename, target, done))
              /\ IF done
                 THEN /\ fs' = Annotated(fs, target, ai_caption, ocr_text,
                                         case_insensitive)
                      /\ pc' = "reclaim"
                      /\ UNCHANGED error
                 ELSE Raise("MetadataWriteFailed") /\ UNCHANGED fs
    /\ UNCHANGED << env, image_files, idx, locals, san >>

\* process_image, line 109: clear_gpu_memory(), then the loop steps on
ClearGpuMemory ==
    /\ pc = "reclaim"
    /\ events' = IF Reclaims(dry_run)
                 THEN Append(events, Event("reclaim", filename, None, TRUE))
                 ELSE events
    /\ idx' = idx + 1
    /\ pc' = "loop"
    /\ UNCHANGED << env, fs, image_files, locals, error, san >>

Next ==
    \/ MainSelect
    \/ SetupAI
    \/ BeginItem
    \/ Finish
    \/ ExtractText
    \/ GenerateCaption
    \/ SynthesizeName
    \/ DryRunReport
    \/ RenameFile
    \/ WriteMetadata
    \/ ClearGpuMemory

Spec == Init /\ [][Next]_vars

\* ------------------------------------------------------------------------
\* The sanitizer on its own: generate_intelligent_filename applied to one
\* generator response
\* ------------------------------------------------------------------------

\* the characters the modelled responses are written in, besides the filler
SanAlphabet == {"B", " ", "_", "!", ".", "\n"}

\* the lengths of the run of "x" in the middle of a modelled response
PadLens == {0, 62, 65}

Words(n) == UNION {[1..k -> SanAlphabet] : k \in 0..n}

Fill(n) == [i \in 1..n |-> "x"]

\* the modelled responses: a word, a run of "x", a last character
SanInputs ==
    {pre \o Fill(n) \o suf : pre \in Words(MaxWordLen), n \in PadLens,
                             suf \in Words(1)}

InitSan ==
    /\ dry_run = TRUE
    /\ case_insensitive = TRUE
    /\ mps_available = TRUE
    /\ fs = FreshDir({})
    /\ fs0 = FreshDir({})
    /\ image_files = <<>>
    /\ idx = 0
    /\ pc = "san_call"
    /\ ocr_text = ""
    /\ ai_caption = ""
    /\ new_filename = <<>>
    /\ error = "none"
    /\ events = <<>>
    /\ san_in \in SanInputs
    /\ san_out = <<>>

\* generate_intelligent_filename, lines 32-50, on the response san_in
Sanitize ==
    /\ pc = "san_call"
    /\ san_out' = generate_intelligent_filename(san_in)
    /\ pc' = "san_done"
    /\ UNCHANGED << env, fs, image_files, idx, locals, error, events, san_in >>

NextSan == Sanitize

SpecSan == InitSan /\ [][NextSan]_vars

\* ------------------------------------------------------------------------
\* Properties
\* ------------------------------------------------------------------------

EventIdx == 1..Len(events)

PreLoopErrors == {"NoCandidatesFound", "SetupFailed"}

\* item j reached its apply step (the dry-run report or the rename call)
ReachedApply(j) ==
    \E k \in EventIdx : events[k].item = j /\ events[k].op \in {"report", "rename"}

\* C1: when processing item k fails with a per-item error, every later item
\* of the batch still reaches its apply step and the error does not leave
\* the batch loop: a finished run that hit a per-item error ended normally
\* with all later items applied.
C1_PerItemFailureContinues ==
    (pc \in {"done", "aborted"} /\ error \notin ({"none"} \cup PreLoopErrors))
        => /\ pc = "done"
           /\ \A j \in (idx + 1)..Len(image_files) : ReachedApply(j)

\* C2: in dry-run mode the directory (its entry names and every file's
\* metadata) is in every reachable state what it was before the run.
C2_DryRunPurity == dry_run => fs = fs0

\* C2 witness: a dry run that went through a whole batch and reported a
\* would-be rename.
C2_Witness ==
    /\ dry_run
    /\ pc = "done"
    /\ \E k \in EventIdx : events[k].op = "report" /\ events[k].dst # events[k].src

\* C3: in a real run every metadata write follows a successful rename of the
\* same item and is addressed to that rename's new path, and no metadata
\* write is issued for an item whose rename failed.
C3_MetadataAfterRename ==
    ~dry_run =>
        /\ \A k \in EventIdx :
              events[k].op = "write_metadata" =>
                  \E j \in 1..(k - 1) :
                      /\ events[j].op = "rename"
                      /\ events[j].ok
                      /\ events[j].item = events[k].item
                      /\ events[j].dst = events[k].dst
        /\ \A j \in EventIdx :
              (events[j].op = "rename" /\ ~events[j].ok) =>
                  \A k \in EventIdx :
                      ~(events[k].op = "write_metadata"
                          /\ events[k].item = events[j].item)

\* C3 witness: a real run in which one item was renamed and annotated under
\* its new name and a later item's rename failed.
C3_Witness ==
    /\ ~dry_run
    /\ \E k \in EventIdx :
          /\ events[k].op = "write_metadata"
          /\ events[k].ok
          /\ events[k].dst # events[k].src
          /\ fs[events[k].dst].desc # NoMeta
    /\ \E j \in EventIdx : events[j].op = "rename" /\ ~events[j].ok

\* C4: in a real run the items enter process_image in an order whose
\* filename lengths never decrease.
C4_RealRunLengthOrder ==
    ~dry_run =>
        \A a, b \in EventIdx :
            (a < b /\ events[a].op = "extract" /\ events[b].op = "extract")
                => Len(events[a].src) <= Len(events[b].src)

\* C4 witness: a real run that processed a shorter name before a longer one
\* although the longer one sorts first as a string.
C4_Witness ==
    /\ ~dry_run
    /\ \E a, b \in EventIdx :
          /\ a < b
          /\ events[a].op = "extract"
          /\ events[b].op = "extract"
          /\ Len(events[a].src) < Len(events[b].src)
          /\ StrLess(events[b].src, events[a].src)

\* an entry the selector has to pick: its case-folded name begins with
\* "screen" and ends with ".png"
Qualifies(e) ==
    LET l == Lower(e)
        n == Len(l)
    IN  /\ n >= 6
        /\ \A i \in 1..6 : l[i] = ScreenPrefix[i]
        /\ n >= 4
        /\ <<l[n - 3], l[n - 2], l[n - 1], l[n]>> = <<".", "p", "n", "g">>

\* the entries of the pool that qualify, and the case-folded name of each
QualifyingPool == {e \in EntryPool : Qualifies(e)}
FoldedName == [e \in EntryPool |-> Lower(e)]

\* C5: once selection has run, the batch holds one candidate (the case-folded
\* name) for each directory entry that qualifies and nothing else; when no
\* entry qualifies the run has raised instead of starting an empty batch.
C5_SelectorExact ==
    pc \notin {"start", "san_call", "san_done"} =>
        LET Q == (DOMAIN fs0) \cap QualifyingPool
        IN  IF Q = {}
            THEN pc = "aborted" /\ error = "NoCandidatesFound" /\ image_files = <<>>
            ELSE /\ error # "NoCandidatesFound"
                 /\ Len(image_files) = Cardinality(Q)
                 /\ \A i \in 1..Len(image_files) :
                       \E e \in Q : image_files[i] = FoldedName[e]
                 /\ \A e \in Q :
                       Cardinality({i \in 1..Len(image_files) :
                                       image_files[i] = FoldedName[e]})
                           = Cardinality({d \in Q : FoldedName[d] = FoldedName[e]})

\* C5 witness: the directory screen_a.png, notes.txt, SCREEN_B.PNG was
\* scanned and two candidates were selected.
C5_Witness ==
    /\ DOMAIN fs0 = {E_screen_a, E_notes, E_SCREEN_B}
    /\ pc = "setup"
    /\ Len(image_files) = 2

\* the characters a stem may hold: letters, digits, "_", "-" and "."
StemChars ==
    {AsciiOrder[i] : i \in 6..41} \cup {AsciiOrder[i] : i \in 43..68}
        \cup {"_", "-", "."}

\* C6: the name returned for any response is a stem followed by ".png",
\* the stem has at most 64 characters and only letters, digits, "_", "-", ".".
C6_StemBounded ==
    pc = "san_done" =>
        LET n == Len(san_out)
        IN  /\ n >= 4
            /\ SubSeq(san_out, n - 3, n) = <<".", "p", "n", "g">>
            /\ n - 4 <= MaxStemLen
            /\ \A i \in 1..(n - 4) : san_out[i] \in StemChars

\* C6 witness: a response longer than the cap that holds a character outside
\* the charset was cut to a stem of exactly 64 characters.
C6_Witness ==
    /\ pc = "san_done"
    /\ Len(san_in) > MaxStemLen + 2
    /\ \E i \in 1..Len(san_in) : san_in[i] = "!"
    /\ Len(san_out) = MaxStemLen + 4

\* C7: the sanitized stem never holds two consecutive "_".
C7_NoDoubledUnderscore ==
    pc = "san_done" =>
        \A i \in 1..(Len(san_out) - 1) :
            ~(san_out[i] = "_" /\ san_out[i + 1] = "_")

\* C8: in both modes, when the text extraction of an item after the first
\* begins, the call just before it was the reclamation of the previous item,
\* which itself followed that item's apply step (report or metadata write).
C8_ReclaimBetweenItems ==
    \A k \in EventIdx :
        (events[k].op = "extract" /\ events[k].item > 1) =>
            /\ k > 2
            /\ events[k - 1].op = "reclaim"
            /\ events[k - 1].item = events[k].item - 1
            /\ events[k - 2].op \in {"report", "write_metadata"}
            /\ events[k - 2].item = events[k].item - 1

\* C8 witness: a dry run whose second item has begun text extraction.
C8_Witness ==
    /\ dry_run
    /\ \E k \in EventIdx : events[k].op = "extract" /\ events[k].item = 2

\* C9: in a real run no rename replaces another file: the directory holds as
\* many files as before the run and every original file is still there.
C9_NoOverwrite ==
    ~dry_run =>
        /\ Cardinality(DOMAIN fs) = Cardinality(DOMAIN fs0)
        /\ {fs[n].id : n \in DOMAIN fs} = {fs0[n].id : n \in DOMAIN fs0}

\* C10: every path handed to process_image has as its basename the exact
\* name of an entry of the directory as enumerated.
C10_PathNamesAnEntry ==
    \A i \in 1..Len(image_files) : image_files[i] \in DOMAIN fs0

====
